---- MODULE Spec2Model ----
(***************************************************************************)
(* State-machine model of the ChallengeEscrow contract (the Escrow Ledger) *)
(* and of the retry protocol of the useBlockchainChallenge hook (the       *)
(* Settlement Submitter).                                                  *)
(*                                                                         *)
(* Ledger calls are EVM transactions: a call either runs to its end or     *)
(* reverts, and a revert restores the state the call started from.  Each   *)
(* function is an operator from the state before the call to the outcome   *)
(* [ok, err, st], st being the state as the code has changed it when it    *)
(* stops; Revert turns the outcome into the state after the transaction.   *)
(* uint256 arithmetic is the checked arithmetic of Solidity 0.8: a         *)
(* subtraction below zero aborts the call.  Additions cannot reach 2^256   *)
(* because every amount added has been pulled from a token whose supply    *)
(* fits a uint256.  The lockedAt field of a stake is not modelled: no      *)
(* function reads it.  The token is a standard ERC20: a transfer fails     *)
(* when the sender's balance is short or the receiver is the zero address, *)
(* and moves exactly the amount otherwise.                                 *)
(*                                                                         *)
(* Transactions are executed one at a time.  The result of a transaction   *)
(* (function, arguments, outcome, emitted events) stays in `receipt` until *)
(* its sender takes it; the next transaction is sent after that.           *)
(*                                                                         *)
(* SpecReentrant splits a transaction where it calls the token: the token  *)
(* has control there and may call the contract back.  The guard is the     *)
(* nonReentrant modifier of OpenZeppelin's ReentrancyGuard, which holds    *)
(* _status at ENTERED while a guarded function runs.                       *)
(***************************************************************************)
EXTENDS Integers, Sequences, FiniteSets, TLC

\* ---------------------------------------------------------------- bounds
MaxAmount     == 1     \* largest amount passed to a call
MaxStakes     == 2     \* stake records over all challenges
MaxUsersLen   == 2     \* length of the users array of releaseStakes
InitialSupply == 2     \* units of each token the factory starts with

\* ------------------------------------------------------------- addresses
Null         == "0x0"
UserA        == "A"
UserB        == "B"
Factory      == "F"     \* the factory the escrow is constructed with
OtherFactory == "G"     \* a second factory the owner can switch to
Owner        == "O"     \* the deployer, Ownable(msg.sender)
Escrow       == "L"     \* address(this)
TokenX       == "X"

Users      == {UserA, UserB}
Tokens     == {TokenX}
Challenges == {7, 8}
Holders    == {UserA, UserB, Factory, OtherFactory, Escrow}
Callers    == {Factory, OtherFactory}         \* senders of ledger calls
Admins     == {Factory, OtherFactory, Owner}  \* senders of setChallengeFactory

\* argument domains of the calls (zero address and zero amount included)
UserArgs   == Users \cup {Null}
ToArgs     == Users \cup {Null, Escrow}
TokenArgs  == Tokens \cup {Null}
AmountArgs == 0..MaxAmount
UsersArgs  == UNION {[1..n -> UserArgs] : n \in 0..MaxUsersLen}

VARIABLES
    challengeFactory,       \* address public challengeFactory
    totalLockedByToken,     \* user => token => amount
    challengeParticipants,  \* challengeId => address[]
    challengeStakes,        \* challengeId => LockedStake[]
    balances,               \* token => holder => balanceOf
    receipt,                \* the transaction just executed: function,
                            \* arguments, result and emitted events, until
                            \* its sender has taken it
    paidOut,                \* challengeId => token => amount the emitted
                            \* StakeReleased and StakeTransferred events
                            \* report as paid out so far
    status,                 \* ReentrancyGuard's _status
    inflight,               \* the call suspended in a token call, with the
                            \* events it has emitted so far
    snapshot,               \* <<state the suspended call reverts to>>
    nested,                 \* the last call made from inside the token call
    pc,                     \* where the running hook call stands
    operation,              \* createP2PChallenge or acceptP2PChallenge
    attempt,                \* the loop variable of retryTransaction
    txs,                    \* the transactions the call has handed to the
                            \* network, in order, each with its fate
    lastError,              \* let lastError; the error a failed call throws
    errors,                 \* the error each failed attempt of fn threw
    delays,                 \* completed await wait(RETRY_DELAY)
    outcome                 \* what the call returned or threw

ledgerVars == <<challengeFactory, totalLockedByToken, challengeParticipants,
                challengeStakes, balances>>
guardVars == <<status, inflight, snapshot, nested>>
submitterVars == <<pc, operation, attempt, txs, lastError, errors, delays,
                   outcome>>
vars == <<challengeFactory, totalLockedByToken, challengeParticipants,
          challengeStakes, balances, receipt, paidOut,
          status, inflight, snapshot, nested,
          pc, operation, attempt, txs, lastError, errors, delays, outcome>>

\* the contract state a transaction starts from; events collects what the
\* transaction emits
Ledger ==
    [challengeFactory      |-> challengeFactory,
     totalLockedByToken    |-> totalLockedByToken,
     challengeParticipants |-> challengeParticipants,
     challengeStakes       |-> challengeStakes,
     balances              |-> balances,
     status                |-> status,
     events                |-> <<>>]

\* -------------------------------------------------------------- helpers
RECURSIVE SumOver(_, _)
SumOver(S, f) ==
    IF S = {} THEN 0
    ELSE LET x == CHOOSE y \in S : TRUE IN f[x] + SumOver(S \ {x}, f)

Range(s) == {s[i] : i \in 1..Len(s)}

Done(st)       == [ok |-> TRUE,  err |-> "ok", st |-> st]
Fail(err, st)  == [ok |-> FALSE, err |-> err,  st |-> st]

\* struct LockedStake
LockedStake(token, amount, challengeId) ==
    [token |-> token, amount |-> amount, challengeId |-> challengeId,
     released |-> FALSE]

\* faulty variant of CheckedSub: an unchecked subtraction that saturates at 0
SaturatingSub(a, b) ==
    [ok |-> TRUE, val |-> IF b > a THEN 0 ELSE a - b]

\* uint256 a - b of Solidity 0.8: Panic(0x11) when b > a
CheckedSub(a, b) ==
    IF b > a THEN [ok |-> FALSE, val |-> a] ELSE [ok |-> TRUE, val |-> a - b]

\* the token's own transfer: from's balance must cover the amount and the
\* receiver must not be the zero address; a transfer to oneself moves nothing
TokenMove(bal, token, from, to, amount) ==
    IF to = Null \/ bal[token][from] < amount
    THEN [ok |-> FALSE, bal |-> bal]
    ELSE [ok |-> TRUE,
          bal |-> [bal EXCEPT ![token] =
                     [h \in Holders |->
                        bal[token][h] - (IF h = from THEN amount ELSE 0)
                                      + (IF h = to   THEN amount ELSE 0)]]]

\* IERC20(token).safeTransfer(to, amount), called by the escrow
safeTransfer(bal, token, to, amount) ==
    TokenMove(bal, token, Escrow, to, amount)

\* IERC20(token).safeTransferFrom(from, address(this), amount)
safeTransferFrom(bal, token, from, amount) ==
    TokenMove(bal, token, from, Escrow, amount)

\* faulty variant of onlyFactory: any non-zero sender passes
onlyNonZeroSender(st, sender) == sender # Null

\* modifier onlyFactory
onlyFactory(st, sender) == sender = st.challengeFactory

\* faulty variant of nonReentrant: the modifier lets every call in
nonReentrantOff(st) == TRUE

\* modifier nonReentrant of ReentrancyGuard: a call made while another
\* guarded call is running reverts; the running call holds _status at ENTERED
\* from its first statement to its last
nonReentrant(st) == st.status # "ENTERED"

\* totalLockedByToken[user][token] -= amount
debitLocked(st, user, token, amount) ==
    LET sub == CheckedSub(st.totalLockedByToken[user][token], amount) IN
    IF ~sub.ok THEN Fail("Panic", st)
    ELSE Done([st EXCEPT !.totalLockedByToken[user][token] = sub.val])

\* ------------------------------------------------------- ChallengeEscrow
\* faulty variant of lockStake: the locked total is assigned, not increased
lockStakeOverwrites(st, sender, user, token, amount, challengeId) ==
    IF ~onlyFactory(st, sender) THEN Fail("Unauthorized", st)
    ELSE IF ~nonReentrant(st)
    THEN Fail("ReentrancyGuardReentrantCall", st)
    ELSE IF user = Null \/ token = Null \/ amount = 0
    THEN Fail("InvalidArgument", st)
    ELSE
    LET pull == safeTransferFrom(st.balances, token, sender, amount) IN
    IF ~pull.ok THEN Fail("TransferFailed", st)
    ELSE Done(
      [st EXCEPT
        !.balances = pull.bal,
        !.challengeStakes[challengeId] =
            Append(@, LockedStake(token, amount, challengeId)),
        !.totalLockedByToken[user][token] = amount,
        !.challengeParticipants[challengeId] = Append(@, user),
        !.events = Append(@, [type |-> "StakeLocked", user |-> user,
                              token |-> token, amount |-> amount,
                              challengeId |-> challengeId])])

\* faulty variant of lockStake: a participant is listed once per challenge
lockStakeListsOnce(st, sender, user, token, amount, challengeId) ==
    IF ~onlyFactory(st, sender) THEN Fail("Unauthorized", st)
    ELSE IF ~nonReentrant(st)
    THEN Fail("ReentrancyGuardReentrantCall", st)
    ELSE IF user = Null \/ token = Null \/ amount = 0
    THEN Fail("InvalidArgument", st)
    ELSE
    LET pull == safeTransferFrom(st.balances, token, sender, amount) IN
    IF ~pull.ok THEN Fail("TransferFailed", st)
    ELSE Done(
      [st EXCEPT
        !.balances = pull.bal,
        !.challengeStakes[challengeId] =
            Append(@, LockedStake(token, amount, challengeId)),
        !.totalLockedByToken[user][token] = @ + amount,
        !.challengeParticipants[challengeId] =
            IF user \in Range(@) THEN @ ELSE Append(@, user),
        !.events = Append(@, [type |-> "StakeLocked", user |-> user,
                              token |-> token, amount |-> amount,
                              challengeId |-> challengeId])])

\* function lockStake(user, token, amount, challengeId)
lockStake(st, sender, user, token, amount, challengeId) ==
    IF ~onlyFactory(st, sender) THEN Fail("Unauthorized", st)
    ELSE IF ~nonReentrant(st)
    THEN Fail("ReentrancyGuardReentrantCall", st)
    ELSE IF user = Null \/ token = Null \/ amount = 0
    THEN Fail("InvalidArgument", st)
    ELSE
    LET pull == safeTransferFrom(st.balances, token, sender, amount) IN
    IF ~pull.ok THEN Fail("TransferFailed", st)
    ELSE Done(
      [st EXCEPT
        !.balances = pull.bal,
        !.challengeStakes[challengeId] =
            Append(@, LockedStake(token, amount, challengeId)),
        !.totalLockedByToken[user][token] = @ + amount,
        !.challengeParticipants[challengeId] = Append(@, user),
        !.events = Append(@, [type |-> "StakeLocked", user |-> user,
                              token |-> token, amount |-> amount,
                              challengeId |-> challengeId])])

\* faulty variant of releaseOne: the stake is paid but not flagged released
releaseOneUnflagged(st, challengeId, user, j) ==
    LET stake == st.challengeStakes[challengeId][j] IN
    IF stake.released THEN Done(st)
    ELSE
    LET push == safeTransfer(st.balances, stake.token, user, stake.amount)
        paid == [st EXCEPT !.balances = push.bal]
    IN
    IF ~push.ok THEN Fail("TransferFailed", st)
    ELSE
    LET debit == debitLocked(paid, user, stake.token, stake.amount) IN
    IF ~debit.ok THEN debit
    ELSE Done(
      [debit.st EXCEPT
        !.events = Append(@, [type |-> "StakeReleased", user |-> user,
                              token |-> stake.token, amount |-> stake.amount,
                              challengeId |-> challengeId])])

\* faulty variant of releaseOne: a released stake has its amount cleared
releaseOneClearsAmount(st, challengeId, user, j) ==
    LET stake == st.challengeStakes[challengeId][j] IN
    IF stake.released THEN Done(st)
    ELSE
    LET push == safeTransfer(st.balances, stake.token, user, stake.amount)
        paid == [st EXCEPT !.balances = push.bal]
    IN
    IF ~push.ok THEN Fail("TransferFailed", st)
    ELSE
    LET debit == debitLocked(paid, user, stake.token, stake.amount) IN
    IF ~debit.ok THEN debit
    ELSE Done(
      [debit.st EXCEPT
        !.challengeStakes[challengeId][j].released = TRUE,
        !.challengeStakes[challengeId][j].amount = 0,
        !.events = Append(@, [type |-> "StakeReleased", user |-> user,
                              token |-> stake.token, amount |-> stake.amount,
                              challengeId |-> challengeId])])

\* body of the inner loop of releaseStakes for stake j and the address user
releaseOne(st, challengeId, user, j) ==
    LET stake == st.challengeStakes[challengeId][j] IN
    IF stake.released THEN Done(st)
    ELSE
    LET push == safeTransfer(st.balances, stake.token, user, stake.amount)
        paid == [st EXCEPT !.balances = push.bal]
    IN
    IF ~push.ok THEN Fail("TransferFailed", st)
    ELSE
    LET debit == debitLocked(paid, user, stake.token, stake.amount) IN
    IF ~debit.ok THEN debit
    ELSE Done(
      [debit.st EXCEPT
        !.challengeStakes[challengeId][j].released = TRUE,
        !.events = Append(@, [type |-> "StakeReleased", user |-> user,
                              token |-> stake.token, amount |-> stake.amount,
                              challengeId |-> challengeId])])

\* for (j = 0; j < stakes.length; j++), from stake j on
RECURSIVE releaseInner(_, _, _, _)
releaseInner(st, challengeId, user, j) ==
    IF j > Len(st.challengeStakes[challengeId]) THEN Done(st)
    ELSE LET r == releaseOne(st, challengeId, user, j) IN
         IF ~r.ok THEN r ELSE releaseInner(r.st, challengeId, user, j + 1)

\* for (i = 0; i < users.length; i++), from user i on
RECURSIVE releaseOuter(_, _, _, _)
releaseOuter(st, challengeId, users, i) ==
    IF i > Len(users) THEN Done(st)
    ELSE LET r == releaseInner(st, challengeId, users[i], 1) IN
         IF ~r.ok THEN r ELSE releaseOuter(r.st, challengeId, users, i + 1)

\* function releaseStakes(challengeId, users)
releaseStakes(st, sender, challengeId, users) ==
    IF ~onlyFactory(st, sender) THEN Fail("Unauthorized", st)
    ELSE IF ~nonReentrant(st)
    THEN Fail("ReentrancyGuardReentrantCall", st)
    ELSE releaseOuter(st, challengeId, users, 1)

\* faulty variant of transferStake: the tokens are pushed to `from`
transferStakePaysFrom(st, sender, from, to, token, amount, challengeId) ==
    IF ~onlyFactory(st, sender) THEN Fail("Unauthorized", st)
    ELSE IF ~nonReentrant(st)
    THEN Fail("ReentrancyGuardReentrantCall", st)
    ELSE IF from = Null \/ to = Null \/ token = Null \/ amount = 0
    THEN Fail("InvalidArgument", st)
    ELSE
    LET push == safeTransfer(st.balances, token, from, amount)
        paid == [st EXCEPT !.balances = push.bal]
    IN
    IF ~push.ok THEN Fail("TransferFailed", st)
    ELSE
    LET debit == debitLocked(paid, from, token, amount) IN
    IF ~debit.ok THEN debit
    ELSE Done(
      [debit.st EXCEPT
        !.events = Append(@, [type |-> "StakeTransferred", from |-> from,
                              to |-> to, token |-> token, amount |-> amount,
                              challengeId |-> challengeId,
                              reason |-> "Challenge settlement"])])

\* function transferStake(from, to, token, amount, challengeId)
transferStake(st, sender, from, to, token, amount, challengeId) ==
    IF ~onlyFactory(st, sender) THEN Fail("Unauthorized", st)
    ELSE IF ~nonReentrant(st)
    THEN Fail("ReentrancyGuardReentrantCall", st)
    ELSE IF from = Null \/ to = Null \/ token = Null \/ amount = 0
    THEN Fail("InvalidArgument", st)
    ELSE
    LET push == safeTransfer(st.balances, token, to, amount)
        paid == [st EXCEPT !.balances = push.bal]
    IN
    IF ~push.ok THEN Fail("TransferFailed", st)
    ELSE
    LET debit == debitLocked(paid, from, token, amount) IN
    IF ~debit.ok THEN debit
    ELSE Done(
      [debit.st EXCEPT
        !.events = Append(@, [type |-> "StakeTransferred", from |-> from,
                              to |-> to, token |-> token, amount |-> amount,
                              challengeId |-> challengeId,
                              reason |-> "Challenge settlement"])])

\* faulty variant of setChallengeFactory: guarded by onlyFactory
setChallengeFactoryByFactory(st, sender, newFactory) ==
    IF sender # st.challengeFactory THEN Fail("Unauthorized", st)
    ELSE IF newFactory = Null THEN Fail("InvalidArgument", st)
    ELSE Done(
      [st EXCEPT
        !.challengeFactory = newFactory,
        !.events = Append(@, [type |-> "ChallengeFactoryUpdated",
                              newFactory |-> newFactory])])

\* function setChallengeFactory(_newFactory), onlyOwner
setChallengeFactory(st, sender, newFactory) ==
    IF sender # Owner THEN Fail("Unauthorized", st)
    ELSE IF newFactory = Null THEN Fail("InvalidArgument", st)
    ELSE Done(
      [st EXCEPT
        !.challengeFactory = newFactory,
        !.events = Append(@, [type |-> "ChallengeFactoryUpdated",
                              newFactory |-> newFactory])])

\* faulty variant of Revert: a failed call keeps what it had done
KeepPartial(pre, r) == r.st

\* the state after the transaction: a failed call reverts every change
Revert(pre, r) == IF r.ok THEN r.st ELSE pre

\* amount of token the events of one transaction report as paid out for c
RECURSIVE PaidIn(_, _, _)
PaidIn(evs, c, token) ==
    IF evs = <<>> THEN 0
    ELSE (IF /\ Head(evs).type \in {"StakeReleased", "StakeTransferred"}
             /\ Head(evs).challengeId = c
             /\ Head(evs).token = token
          THEN Head(evs).amount ELSE 0) + PaidIn(Tail(evs), c, token)

NoReceipt ==
    [op |-> "none", sender |-> Null, user |-> Null, to |-> Null,
     token |-> Null, amount |-> 0, challengeId |-> 0, users |-> <<>>,
     result |-> "none", events |-> <<>>]

\* one transaction: the whole call, then the receipt handed to the sender
Transact(r, call) ==
    LET post == Revert(Ledger, r) IN
    /\ challengeFactory'      = post.challengeFactory
    /\ totalLockedByToken'    = post.totalLockedByToken
    /\ challengeParticipants' = post.challengeParticipants
    /\ challengeStakes'       = post.challengeStakes
    /\ balances'              = post.balances
    /\ receipt' = [call EXCEPT !.result = r.err, !.events = post.events]
    /\ paidOut' = [c \in Challenges |-> [t \in Tokens |->
                      paidOut[c][t] + PaidIn(post.events, c, t)]]
    /\ UNCHANGED <<guardVars, submitterVars>>

NumStakes == SumOver(Challenges, [c \in Challenges |-> Len(challengeStakes[c])])

LockStake ==
    \E sender \in Callers, user \in UserArgs, token \in TokenArgs,
       amount \in AmountArgs, c \in Challenges :
        /\ receipt = NoReceipt
        /\ NumStakes < MaxStakes
        /\ Transact(lockStake(Ledger, sender, user, token, amount, c),
                    [NoReceipt EXCEPT !.op = "lockStake", !.sender = sender,
                                      !.user = user, !.token = token,
                                      !.amount = amount, !.challengeId = c])

ReleaseStakes ==
    \E sender \in Callers, c \in Challenges, users \in UsersArgs :
        /\ receipt = NoReceipt
        /\ Transact(releaseStakes(Ledger, sender, c, users),
                    [NoReceipt EXCEPT !.op = "releaseStakes", !.sender = sender,
                                   !.challengeId = c, !.users = users])

TransferStake ==
    \E sender \in Callers, from \in UserArgs, to \in ToArgs,
       token \in TokenArgs, amount \in AmountArgs, c \in Challenges :
        /\ receipt = NoReceipt
        /\ Transact(transferStake(Ledger, sender, from, to, token, amount, c),
                    [NoReceipt EXCEPT !.op = "transferStake", !.sender = sender,
                                   !.user = from, !.to = to, !.token = token,
                                   !.amount = amount, !.challengeId = c])

SetChallengeFactory ==
    \E sender \in Admins, newFactory \in {Null, Factory, OtherFactory} :
        /\ receipt = NoReceipt
        /\ Transact(setChallengeFactory(Ledger, sender, newFactory),
                    [NoReceipt EXCEPT !.op = "setChallengeFactory",
                                   !.sender = sender, !.to = newFactory])

\* the sender takes the receipt of its transaction (await tx.wait())
TakeReceipt ==
    /\ receipt # NoReceipt
    /\ receipt' = NoReceipt
    /\ UNCHANGED <<ledgerVars, paidOut, guardVars, submitterVars>>

\* ------------------------------------------- calls from inside a token call
\* the inner loop of releaseStakes for the stakes j .. k-1: the state in
\* which the loop reaches the safeTransfer of stake k
RECURSIVE releasePrefix(_, _, _, _, _)
releasePrefix(st, challengeId, user, j, k) ==
    IF j >= k THEN Done(st)
    ELSE LET r == releaseOne(st, challengeId, user, j) IN
         IF ~r.ok THEN r ELSE releasePrefix(r.st, challengeId, user, j + 1, k)

NoNested == [op |-> "none", sender |-> Null, result |-> "none"]

\* the errors of the modifiers and of the require statements, which a call
\* throws before its first token call
EarlyErrors == {"Unauthorized", "ReentrancyGuardReentrantCall",
                "InvalidArgument"}

\* the state after post, status apart
SetLedger(post) ==
    /\ challengeFactory'      = post.challengeFactory
    /\ totalLockedByToken'    = post.totalLockedByToken
    /\ challengeParticipants' = post.challengeParticipants
    /\ challengeStakes'       = post.challengeStakes
    /\ balances'              = post.balances

\* a lockStake, releaseStakes or transferStake transaction has passed its
\* modifiers and require statements and stands in a token call
\* (safeTransferFrom of lockStake, safeTransfer of transferStake, safeTransfer
\* of stake k for users[0] in releaseStakes); the token has control
BeginCall ==
    /\ receipt = NoReceipt
    /\ status = "NOT_ENTERED"
    /\ \/ \E sender \in Callers, user \in UserArgs, token \in TokenArgs,
             amount \in AmountArgs, c \in Challenges :
            /\ NumStakes < MaxStakes
            /\ lockStake(Ledger, sender, user, token, amount, c).err
                  \notin EarlyErrors
            /\ inflight' = [NoReceipt EXCEPT
                              !.op = "lockStake", !.sender = sender,
                              !.user = user, !.token = token,
                              !.amount = amount, !.challengeId = c]
            /\ UNCHANGED ledgerVars
       \/ \E sender \in Callers, from \in UserArgs, to \in ToArgs,
             token \in TokenArgs, amount \in AmountArgs, c \in Challenges :
            /\ transferStake(Ledger, sender, from, to, token, amount, c).err
                  \notin EarlyErrors
            /\ inflight' = [NoReceipt EXCEPT
                              !.op = "transferStake", !.sender = sender,
                              !.user = from, !.to = to, !.token = token,
                              !.amount = amount, !.challengeId = c]
            /\ UNCHANGED ledgerVars
       \/ \E sender \in Callers, c \in Challenges, users \in UsersArgs,
             k \in 1..MaxStakes :
            /\ releaseStakes(Ledger, sender, c, users).err \notin EarlyErrors
            /\ users # <<>>
            /\ k <= Len(challengeStakes[c])
            /\ ~challengeStakes[c][k].released
            /\ LET r == releasePrefix(Ledger, c, users[1], 1, k) IN
               /\ r.ok
               /\ SetLedger(r.st)
               /\ inflight' = [NoReceipt EXCEPT
                                 !.op = "releaseStakes", !.sender = sender,
                                 !.challengeId = c, !.users = users,
                                 !.events = r.st.events]
    /\ status' = "ENTERED"
    /\ snapshot' = <<Ledger>>
    /\ UNCHANGED <<receipt, paidOut, nested, submitterVars>>

\* the token, or a contract it calls, calls lockStake, releaseStakes or
\* transferStake while the call above is suspended; the arguments are ones
\* the require statements accept
NestedCall ==
    /\ status = "ENTERED"
    /\ \/ \E sender \in Callers, user \in Users, token \in Tokens,
             amount \in 1..MaxAmount, c \in Challenges :
            LET r == lockStake(Ledger, sender, user, token, amount, c) IN
            /\ SetLedger(Revert(Ledger, r))
            /\ nested' = [op |-> "lockStake", sender |-> sender,
                          result |-> r.err]
       \/ \E sender \in Callers, c \in Challenges, user \in Users :
            LET r == releaseStakes(Ledger, sender, c, <<user>>) IN
            /\ SetLedger(Revert(Ledger, r))
            /\ nested' = [op |-> "releaseStakes", sender |-> sender,
                          result |-> r.err]
       \/ \E sender \in Callers, from \in Users, to \in ToArgs \ {Null},
             token \in Tokens, amount \in 1..MaxAmount, c \in Challenges :
            LET r == transferStake(Ledger, sender, from, to, token, amount, c)
            IN
            /\ SetLedger(Revert(Ledger, r))
            /\ nested' = [op |-> "transferStake", sender |-> sender,
                          result |-> r.err]
    /\ UNCHANGED <<receipt, paidOut, status, inflight, snapshot,
                   submitterVars>>

\* the token call returns and the suspended call runs to its end (or
\* reverts to the state it started from); _status goes back to NOT_ENTERED
EndCall ==
    /\ status = "ENTERED"
    /\ LET call == inflight
           cur  == [Ledger EXCEPT !.status = "NOT_ENTERED",
                                  !.events = call.events]
           r == CASE call.op = "lockStake" ->
                       lockStake(cur, call.sender, call.user, call.token,
                                 call.amount, call.challengeId)
                  [] call.op = "releaseStakes" ->
                       releaseStakes(cur, call.sender, call.challengeId,
                                     call.users)
                  [] call.op = "transferStake" ->
                       transferStake(cur, call.sender, call.user, call.to,
                                     call.token, call.amount,
                                     call.challengeId)
           post == IF r.ok THEN r.st
                   ELSE [snapshot[1] EXCEPT !.status = "NOT_ENTERED"]
       IN /\ SetLedger(post)
          /\ receipt' = [call EXCEPT !.result = r.err, !.events = post.events]
          /\ paidOut' = [c \in Challenges |-> [t \in Tokens |->
                            paidOut[c][t] + PaidIn(post.events, c, t)]]
    /\ status' = "NOT_ENTERED"
    /\ inflight' = NoReceipt
    /\ snapshot' = <<>>
    /\ nested' = NoNested
    /\ UNCHANGED submitterVars

\* ------------------------------------------------ useBlockchainChallenge
MAX_RETRIES == 3
RETRY_DELAY == 2000

\* the errors an attempt can throw: a wallet message containing
\* 'user rejected', one containing 'User denied', the code ACTION_REJECTED,
\* a provider or network error, a reverted transaction, a null receipt
AttemptErrors == {"user rejected", "User denied", "ACTION_REJECTED",
                  "network error", "transaction reverted",
                  "Transaction receipt is null"}

\* the errors thrown before the retry loop is entered
SetupErrors == {"User not authenticated", "Ethereum provider not available",
                "provider error"}

\* faulty variant of isUserCancellation: only the error code is tested
isActionRejected(error) == error = "ACTION_REJECTED"

\* the test of the catch block guarding `throw error`
isUserCancellation(error) ==
    error \in {"user rejected", "User denied", "ACTION_REJECTED"}

SubmitterInit ==
    /\ pc = "idle"
    /\ operation = "none"
    /\ attempt = 0
    /\ txs = <<>>
    /\ lastError = "none"
    /\ errors = <<>>
    /\ delays = 0
    /\ outcome = "none"

UNCHANGED_ledger == UNCHANGED <<ledgerVars, receipt, paidOut, guardVars>>

\* createP2PChallenge(params) or acceptP2PChallenge(params) is called
Submit ==
    \E op \in {"createP2PChallenge", "acceptP2PChallenge"} :
        /\ pc = "idle"
        /\ pc' = "setup"
        /\ operation' = op
        /\ UNCHANGED <<attempt, txs, lastError, errors, delays, outcome>>
        /\ UNCHANGED_ledger

\* the user check, getEthereumProvider, getSigner, getAddress and the
\* contract instance, all before retryTransaction is called: an error here is
\* caught by the hook's own catch block and thrown again
ObtainSigner ==
    /\ pc = "setup"
    /\ \/ /\ pc' = "send"
          /\ attempt' = 1
          /\ UNCHANGED <<lastError, outcome>>
       \/ \E error \in SetupErrors :
            /\ pc' = "done"
            /\ outcome' = "failed"
            /\ lastError' = error
            /\ UNCHANGED attempt
    /\ UNCHANGED <<operation, txs, errors, delays>>
    /\ UNCHANGED_ledger

\* faulty variant of Caught: the last-attempt test is off by one
CaughtOneMore(error) ==
    /\ errors' = Append(errors, error)
    /\ lastError' = error
    /\ IF isUserCancellation(error) \/ attempt = MAX_RETRIES + 1
       THEN pc' = "done" /\ outcome' = "failed"
       ELSE pc' = "delay" /\ UNCHANGED outcome

\* the catch block of retryTransaction for the error of the current attempt
Caught(error) ==
    /\ errors' = Append(errors, error)
    /\ lastError' = error
    /\ IF isUserCancellation(error) \/ attempt = MAX_RETRIES
       THEN pc' = "done" /\ outcome' = "failed"
       ELSE pc' = "delay" /\ UNCHANGED outcome

\* await contract.createP2PChallenge(...) / acceptP2PChallenge(...): the
\* wallet signs and the provider sends.  The network may have accepted the
\* transaction although the call throws (the response is lost).
Send ==
    /\ pc = "send"
    /\ \/ /\ txs' = Append(txs, "pending")
          /\ pc' = "wait"
          /\ UNCHANGED <<lastError, errors, outcome>>
       \/ \E error \in AttemptErrors \ {"transaction reverted",
                                        "Transaction receipt is null"} :
            /\ Caught(error)
            /\ UNCHANGED txs
       \/ /\ txs' = Append(txs, "pending")
          /\ Caught("network error")
    /\ UNCHANGED <<operation, attempt, delays>>
    /\ UNCHANGED_ledger

\* the network decides the fate of a transaction it has accepted
Mine ==
    \E i \in 1..Len(txs), fate \in {"mined", "reverted"} :
        /\ txs[i] = "pending"
        /\ txs' = [txs EXCEPT ![i] = fate]
        /\ UNCHANGED <<pc, operation, attempt, lastError, errors, delays,
                       outcome>>
        /\ UNCHANGED_ledger

\* const receipt = await tx.wait(): the receipt of the mined transaction, or
\* an error (the transaction reverted, the connection failed or timed out
\* whatever the fate of the transaction, the receipt is null)
Wait ==
    /\ pc = "wait"
    /\ \/ /\ txs[Len(txs)] = "mined"
          /\ pc' = "done"
          /\ outcome' = "success"
          /\ UNCHANGED <<lastError, errors>>
       \/ /\ txs[Len(txs)] = "reverted"
          /\ Caught("transaction reverted")
       \/ \E error \in {"network error", "Transaction receipt is null"} :
            Caught(error)
    /\ UNCHANGED <<operation, attempt, txs, delays>>
    /\ UNCHANGED_ledger

\* faulty variant of Delay: the next iteration starts without the wait
DelayWithoutWaiting ==
    /\ pc = "delay"
    /\ attempt' = attempt + 1
    /\ pc' = "send"
    /\ UNCHANGED <<operation, txs, lastError, errors, delays, outcome>>
    /\ UNCHANGED_ledger

\* await wait(RETRY_DELAY), then the next iteration of the for loop
Delay ==
    /\ pc = "delay"
    /\ delays' = delays + 1
    /\ attempt' = attempt + 1
    /\ pc' = "send"
    /\ UNCHANGED <<operation, txs, lastError, errors, outcome>>
    /\ UNCHANGED_ledger

\* milliseconds the call has spent in wait(RETRY_DELAY)
Waited == delays * RETRY_DELAY

SubmitterNext == Submit \/ ObtainSigner \/ Send \/ Mine \/ Wait \/ Delay

LedgerInit ==
    /\ challengeFactory = Factory
    /\ totalLockedByToken = [u \in UserArgs |-> [t \in TokenArgs |-> 0]]
    /\ challengeParticipants = [c \in Challenges |-> <<>>]
    /\ challengeStakes = [c \in Challenges |-> <<>>]
    /\ balances = [t \in Tokens |->
                     [h \in Holders |-> IF h = Factory THEN InitialSupply ELSE 0]]
    /\ receipt = NoReceipt
    /\ paidOut = [c \in Challenges |-> [t \in Tokens |-> 0]]
    /\ status = "NOT_ENTERED"
    /\ inflight = NoReceipt
    /\ snapshot = <<>>
    /\ nested = NoNested

Init == LedgerInit /\ SubmitterInit

Next ==
    \/ LockStake
    \/ ReleaseStakes
    \/ TransferStake
    \/ SetChallengeFactory
    \/ TakeReceipt

Spec == Init /\ [][Next]_vars

\* the contract with transactions that are suspended in their token call
\* while the token calls back
NextReentrant == BeginCall \/ NestedCall \/ EndCall \/ TakeReceipt

SpecReentrant == Init /\ [][NextReentrant]_vars

\* the contract driven by lockStake transactions only
SpecLockOnly == Init /\ [][LockStake \/ TakeReceipt]_vars

SpecSubmitter == Init /\ [][SubmitterNext]_vars

\* every await of the hook settles: the wallet and the provider answer, the
\* confirmation wait returns or throws, the timer of wait(RETRY_DELAY) fires
SpecSubmitterFair ==
    /\ SpecSubmitter
    /\ WF_vars(ObtainSigner)
    /\ WF_vars(Send)
    /\ WF_vars(Wait)
    /\ WF_vars(Delay)

\* ------------------------------------------------------------ properties
\* a ledger transaction of function op is executed in this step
Executes(op) == receipt = NoReceipt /\ receipt'.op = op

\* the positions <<c, j>> of all stake records
StakeIds ==
    UNION {{<<c, j>> : j \in 1..Len(challengeStakes[c])} : c \in Challenges}

\* the owner of a stake is the user of the lockStake that created it, which
\* lockStake appends to challengeParticipants at the same position
StakeOwner(c, j) == challengeParticipants[c][j]

AmountOf == [p \in StakeIds |-> challengeStakes[p[1]][p[2]].amount]

\* sum of the amounts of the unreleased stakes u locked for token t
UnreleasedOf(u, t) ==
    SumOver({p \in StakeIds :
               /\ StakeOwner(p[1], p[2]) = u
               /\ challengeStakes[p[1]][p[2]].token = t
               /\ ~challengeStakes[p[1]][p[2]].released}, AmountOf)

\* sum of the amounts of token t ever locked under challenge c
LockedUnder(c, t) ==
    SumOver({p \in StakeIds :
               p[1] = c /\ challengeStakes[c][p[2]].token = t}, AmountOf)

\* C1: in every reachable state, for every user u and token t,
\* LockedBalance[u,t] is the sum of the amounts of the unreleased stakes that
\* u locked for t.
C1_LockedBalanceIsUnreleasedSum ==
    \A u \in Users, t \in Tokens :
        totalLockedByToken[u][t] = UnreleasedOf(u, t)

\* C2: no stake is paid out twice: a releaseStakes(c, ...) never brings the
\* amount of token t paid out for challenge c, by releaseStakes(c, ...) and
\* transferStake(..., c) together, above the amount of t locked under c; so
\* once a transferStake has settled a stake of c, a release does not pay its
\* amount out again.
C2_NoStakePaidTwice ==
    [][(Executes("releaseStakes") /\ receipt'.result = "ok") =>
        \A t \in Tokens :
            LET c == receipt'.challengeId IN
            paidOut'[c][t] > paidOut[c][t] =>
                paidOut'[c][t] <= LockedUnder(c, t)
    ]_vars

\* the unreleased stakes of challenge c that u owns, for token t
OwnUnreleased(c, u, t) ==
    {p \in StakeIds :
       /\ p[1] = c
       /\ StakeOwner(c, p[2]) = u
       /\ challengeStakes[c][p[2]].token = t
       /\ ~challengeStakes[c][p[2]].released}

ReleasedEventsFor(evs, u, t) ==
    {i \in 1..Len(evs) :
       evs[i].type = "StakeReleased" /\ evs[i].user = u /\ evs[i].token = t}

\* C3: a successful releaseStakes(c, users) releases exactly the unreleased
\* stakes of c whose owner is in users: each is paid to its owner,
\* LockedBalance[owner, token] decreases by its amount, it is flagged released
\* and one StakeReleased event is emitted for it; the stakes of c whose owner
\* is not in users stay as they are and nobody else is paid.
C3_ReleasePaysOwnersInUsers ==
    [][(Executes("releaseStakes") /\ receipt'.result = "ok") =>
        LET c     == receipt'.challengeId
            named == Range(receipt'.users)
            due(u, t) == IF u \in named
                         THEN SumOver(OwnUnreleased(c, u, t), AmountOf) ELSE 0
        IN
        /\ \A u \in Users, t \in Tokens :
             /\ balances'[t][u] = balances[t][u] + due(u, t)
             /\ totalLockedByToken'[u][t] = totalLockedByToken[u][t] - due(u, t)
             /\ Cardinality(ReleasedEventsFor(receipt'.events, u, t)) =
                  IF u \in named THEN Cardinality(OwnUnreleased(c, u, t)) ELSE 0
        /\ \A j \in 1..Len(challengeStakes[c]) :
             challengeStakes'[c][j].released =
                (challengeStakes[c][j].released \/ StakeOwner(c, j) \in named)
    ]_vars

LedgerOps == {"lockStake", "releaseStakes", "transferStake"}

\* C4: a lockStake, releaseStakes or transferStake call by a sender other than
\* the current challengeFactory fails with Unauthorized, changes no state and
\* emits no event.
C4_UnauthorizedChangesNothing ==
    [][(receipt = NoReceipt /\ receipt'.op \in LedgerOps
          /\ receipt'.sender # challengeFactory) =>
        /\ receipt'.result = "Unauthorized"
        /\ receipt'.events = <<>>
        /\ UNCHANGED <<ledgerVars, paidOut>>
    ]_vars

C4_Witness ==
    /\ receipt.op = "transferStake"
    /\ receipt.result = "Unauthorized"
    /\ receipt.sender # challengeFactory
    /\ receipt.amount > 0
    /\ totalLockedByToken[receipt.user][receipt.token] >= receipt.amount

\* C5: after a successful releaseStakes(c, users), the same call made again
\* right away succeeds, moves no token, emits no event and changes no
\* LockedBalance entry and no stake record.
C5_ReleaseTwiceIsNoOp ==
    (receipt.op = "releaseStakes" /\ receipt.result = "ok") =>
        LET again == releaseStakes(Ledger, receipt.sender,
                                   receipt.challengeId, receipt.users)
        IN again.ok /\ again.st = Ledger

\* a successful release that paid a stake, for a users array naming one
\* address twice
C5_Witness ==
    /\ receipt.op = "releaseStakes"
    /\ receipt.result = "ok"
    /\ Len(receipt.users) = 2
    /\ receipt.users[1] = receipt.users[2]
    /\ receipt.events # <<>>

\* C6: a transferStake whose amount exceeds LockedBalance[from,token] fails
\* and changes nothing, and no LockedBalance entry is ever negative.
C6_TransferNeverUnderflows ==
    [][(Executes("transferStake")
          /\ receipt'.amount >
               totalLockedByToken[receipt'.user][receipt'.token]) =>
        /\ receipt'.result # "ok"
        /\ receipt'.events = <<>>
        /\ UNCHANGED <<ledgerVars, paidOut>>
        /\ \A u \in UserArgs, t \in TokenArgs : totalLockedByToken'[u][t] >= 0
    ]_vars

\* the push to `to` would succeed, the debit of `from` aborts the call
C6_Witness ==
    /\ receipt.op = "transferStake"
    /\ receipt.result = "Panic"
    /\ receipt.amount > totalLockedByToken[receipt.user][receipt.token]
    /\ balances[receipt.token][Escrow] >= receipt.amount

\* what a successful transferStake changes besides the balance of `to`
TransferEffect ==
    LET from == receipt'.user
        token == receipt'.token
        amount == receipt'.amount
    IN
    /\ totalLockedByToken' =
         [totalLockedByToken EXCEPT ![from][token] = @ - amount]
    /\ receipt'.events =
         << [type |-> "StakeTransferred", from |-> from, to |-> receipt'.to,
             token |-> token, amount |-> amount,
             challengeId |-> receipt'.challengeId,
             reason |-> "Challenge settlement"] >>
    /\ UNCHANGED <<challengeStakes, challengeParticipants, challengeFactory>>

C8_ReleaseSkipsAddressesWithoutStake ==
    [][(Executes("releaseStakes") /\ receipt'.sender = challengeFactory) =>
        LET c        == receipt'.challengeId
            named    == Range(receipt'.users)
            stakers  == Range(challengeParticipants[c])
        IN
        Null \notin named =>
        /\ (named \cap stakers = {}) => receipt'.result = "ok"
        /\ \A u \in named \ stakers, t \in Tokens :
             /\ balances'[t][u] = balances[t][u]
             /\ totalLockedByToken'[u][t] = totalLockedByToken[u][t]
             /\ ReleasedEventsFor(receipt'.events, u, t) = {}
    ]_vars

\* C9: a lockStake, releaseStakes or transferStake that fails, for whatever
\* reason and however far it got, leaves the LockedBalance map, the stake
\* records, the participant lists and the token balances as they were and
\* emits no event.
C9_FailedCallChangesNothing ==
    [][(receipt = NoReceipt /\ receipt'.op \in LedgerOps
          /\ receipt'.result # "ok") =>
        /\ receipt'.events = <<>>
        /\ UNCHANGED <<ledgerVars, paidOut>>
    ]_vars

\* a releaseStakes that failed after it had paid and flagged an earlier stake
C9_Witness ==
    /\ receipt.op = "releaseStakes"
    /\ receipt.result \in {"Panic", "TransferFailed"}
    /\ LET partial == releaseOuter(Ledger, receipt.challengeId,
                                   receipt.users, 1)
       IN /\ ~partial.ok
          /\ partial.st.events # <<>>
          /\ partial.st.balances # balances

\* the transactions of the running call that took effect on the network
Effective == {i \in 1..Len(txs) : txs[i] = "mined"}

\* C10: of the transactions one createP2PChallenge or acceptP2PChallenge call
\* hands to the network, at most one takes effect, also when a confirmation
\* is lost, late or reported as an error and the loop retries.
C10_AtMostOneEffectiveInstruction == Cardinality(Effective) <= 1

\* the errors the specification calls a user cancellation
CancellationErrors == {"user rejected", "User denied", "ACTION_REJECTED"}

\* the attempts of the running call that have failed so far
Failures == Len(errors)

\* C11: when the attempts 1..k-1 fail with errors that are no cancellation
\* and attempt k (k <= 3) succeeds, the call returns the success of attempt
\* k (the receipt of the transaction that attempt sent), has made exactly k
\* attempts and has waited the 2000 ms delay exactly k-1 times, once before
\* each attempt after the first.
C11_SuccessAfterRetries ==
    /\ pc \in {"send", "wait"} =>
         /\ Failures = attempt - 1
         /\ delays = attempt - 1
    /\ outcome = "success" =>
         /\ attempt \in 1..MAX_RETRIES
         /\ Failures = attempt - 1
         /\ \A i \in 1..Failures : errors[i] \notin CancellationErrors
         /\ delays = attempt - 1
         /\ Waited = (attempt - 1) * 2000
         /\ Len(txs) >= 1 /\ txs[Len(txs)] = "mined"

\* two failed attempts, then the third succeeds
C11_Witness ==
    /\ outcome = "success"
    /\ attempt = 3
    /\ Failures = 2
    /\ delays = 2

\* C12: an attempt that fails with a user cancellation ends the call at
\* once with that same error: no attempt follows it and no delay is waited
\* after it; a cancellation of attempt 1 leaves exactly one attempt.
C12_CancellationStopsTheLoop ==
    (Failures >= 1 /\ errors[Failures] \in CancellationErrors) =>
        /\ pc = "done"
        /\ outcome = "failed"
        /\ lastError = errors[Failures]
        /\ attempt = Failures
        /\ delays = Failures - 1

\* the wallet message 'User denied ...' on the first attempt
C12_Witness ==
    /\ errors = <<"User denied">>
    /\ attempt = 1
    /\ delays = 0
    /\ outcome = "failed"

\* C13: when every attempt settles, the call ends, after at most 3 attempts;
\* when all 3 attempts fail with errors that are no cancellation it fails
\* with the error of the third attempt, and no delay follows the last
\* attempt (2 delays in all).
C13_TerminatesWithinMaxRetries ==
    /\ [](/\ attempt <= MAX_RETRIES
          /\ Failures <= MAX_RETRIES
          /\ delays <= MAX_RETRIES - 1
          /\ Failures = MAX_RETRIES =>
                /\ pc = "done"
                /\ outcome = "failed"
                /\ lastError = errors[MAX_RETRIES]
                /\ delays = MAX_RETRIES - 1)
    /\ (pc = "setup") ~> (pc = "done")

\* three attempts failed, none of them a cancellation
C13_Witness ==
    /\ Failures = 3
    /\ \A i \in 1..3 : errors[i] \notin CancellationErrors
    /\ outcome = "failed"
    /\ attempt = 3

\* C14: a createP2PChallenge or acceptP2PChallenge call fails with an error
\* of the provider or the network that is no cancellation only after all 3
\* attempts (and the 2 delays between them) are used up, also when the error
\* arises while the provider and the signer are obtained.
C14_ProviderErrorIsRetried ==
    (outcome = "failed"
       /\ lastError \notin CancellationErrors \cup {"User not authenticated"})
    => /\ attempt = MAX_RETRIES
       /\ delays = MAX_RETRIES - 1

\* C15: challengeFactory changes only by a setChallengeFactory of the owner:
\* a setChallengeFactory by any other sender (the current challengeFactory
\* included) or with the zero address fails and leaves it as it was, no
\* other call changes it, a successful setChallengeFactory(N) makes it N, and
\* a lockStake, releaseStakes or transferStake call fails with Unauthorized
\* exactly when its sender is not the challengeFactory of that moment (so the
\* replaced address is refused and N is let in).
C15_OnlyOwnerSetsFactory ==
    [][/\ (Executes("setChallengeFactory")
            /\ (receipt'.sender # Owner \/ receipt'.to = Null)) =>
              /\ receipt'.result # "ok"
              /\ challengeFactory' = challengeFactory
       /\ (Executes("setChallengeFactory") /\ receipt'.result = "ok") =>
              /\ receipt'.sender = Owner
              /\ challengeFactory' = receipt'.to
       /\ ~Executes("setChallengeFactory") =>
              challengeFactory' = challengeFactory
       /\ (receipt = NoReceipt /\ receipt'.op \in LedgerOps) =>
              (receipt'.result = "Unauthorized"
                 <=> receipt'.sender # challengeFactory)
    ]_vars

\* after the owner replaced Factory by OtherFactory, a releaseStakes sent by
\* OtherFactory pays a stake out
C15_Witness ==
    /\ challengeFactory = OtherFactory
    /\ receipt.op = "releaseStakes"
    /\ receipt.sender = OtherFactory
    /\ receipt.result = "ok"
    /\ receipt.events # <<>>

\* C17: when only lockStake is called, LockedBalance[u,t] is in every state
\* the sum of the amounts of the unreleased stakes of u for t, and a
\* successful lockStake(user, token, amount, c) raises
\* LockedBalance[user,token] by amount, leaves every other entry alone and
\* appends one unreleased stake of that token and amount to challenge c.
C17_LocksAddUp ==
    /\ [](\A u \in Users, t \in Tokens :
            totalLockedByToken[u][t] = UnreleasedOf(u, t))
    /\ [][(Executes("lockStake") /\ receipt'.result = "ok") =>
            LET user == receipt'.user
                token == receipt'.token
                amount == receipt'.amount
                c == receipt'.challengeId
            IN
            /\ totalLockedByToken'[user][token] =
                  totalLockedByToken[user][token] + amount
            /\ \A u \in UserArgs, t \in TokenArgs :
                  <<u, t>> # <<user, token>> =>
                      totalLockedByToken'[u][t] = totalLockedByToken[u][t]
            /\ challengeStakes'[c] =
                  Append(challengeStakes[c],
                         [token |-> token, amount |-> amount,
                          challengeId |-> c, released |-> FALSE])
            /\ \A d \in Challenges \ {c} :
                  challengeStakes'[d] = challengeStakes[d]
       ]_vars

\* the same user has locked twice, in two challenges
C17_Witness ==
    /\ receipt.op = "lockStake"
    /\ receipt.result = "ok"
    /\ \E u \in Users, t \in Tokens :
         /\ totalLockedByToken[u][t] = 2
         /\ challengeParticipants[7] = <<u>>
         /\ challengeParticipants[8] = <<u>>

\* C18: a stake record is never removed and never moves; its token, amount
\* and challengeId never change; its released flag never goes from true back
\* to false (so it changes at most once, from false to true).
C18_StakeRecordsAreMonotone ==
    /\ [](\A p \in StakeIds : challengeStakes[p[1]][p[2]].challengeId = p[1])
    /\ [][\A c \in Challenges :
            /\ Len(challengeStakes'[c]) >= Len(challengeStakes[c])
            /\ \A j \in 1..Len(challengeStakes[c]) :
                 LET old == challengeStakes[c][j]
                     new == challengeStakes'[c][j]
                 IN /\ new.token = old.token
                    /\ new.amount = old.amount
                    /\ new.challengeId = old.challengeId
                    /\ old.released => new.released
       ]_vars

\* a stake is locked in a challenge whose first stake has been released
C18_Witness ==
    /\ receipt.op = "lockStake"
    /\ receipt.result = "ok"
    /\ LET stakes == challengeStakes[receipt.challengeId] IN
       /\ Len(stakes) = 2
       /\ stakes[1].released
       /\ ~stakes[2].released

\* C19: in every state the participant list and the stake list of a
\* challenge have the same length; a successful lockStake(user, ..., c)
\* appends user to the participants of c in the step that appends the stake
\* to the stakes of c, so the j-th participant is the user of the j-th
\* stake; any other step (a failed lockStake, a releaseStakes, a
\* transferStake) leaves every participant list as it was.
C19_ParticipantsFollowStakes ==
    /\ [](\A c \in Challenges :
            Len(challengeParticipants[c]) = Len(challengeStakes[c]))
    /\ [][IF Executes("lockStake") /\ receipt'.result = "ok"
          THEN LET c == receipt'.challengeId IN
               /\ challengeParticipants'[c] =
                     Append(challengeParticipants[c], receipt'.user)
               /\ Len(challengeStakes'[c]) = Len(challengeStakes[c]) + 1
               /\ \A d \in Challenges \ {c} :
                     challengeParticipants'[d] = challengeParticipants[d]
          ELSE challengeParticipants' = challengeParticipants
       ]_vars

\* the same user is listed twice in a challenge it locked two stakes in,
\* and a releaseStakes has paid them out
C19_Witness ==
    /\ receipt.op = "releaseStakes"
    /\ receipt.result = "ok"
    /\ receipt.events # <<>>
    /\ \E u \in Users :
         challengeParticipants[receipt.challengeId] = <<u, u>>

\* the contract's own balance of token t
Holding(t) == balances[t][Escrow]

\* the sum of LockedBalance[u,t] over all users
TotalLocked(t) ==
    SumOver(UserArgs, [u \in UserArgs |-> totalLockedByToken[u][t]])

\* the locked balances never exceed what the contract holds
LockedIsBacked == \A t \in Tokens : TotalLocked(t) <= Holding(t)

\* C20: in every state and for every token t, the contract's own balance of
\* t equals the sum over all users of LockedBalance[u,t].
C20_HoldingEqualsTotalLocked ==
    \A t \in Tokens : Holding(t) = TotalLocked(t)

\* C16: while a lockStake, releaseStakes or transferStake call is suspended
\* in a token call, every lockStake, releaseStakes or transferStake call
\* made from inside it fails (its sender is not challengeFactory, or the
\* reentrancy guard refuses it) and changes nothing of the contract; the
\* guard is held exactly while a call is suspended.
C16_NestedCallsAreRejected ==
    /\ [](status = "ENTERED" <=> inflight # NoReceipt)
    /\ [][(status = "ENTERED" /\ status' = "ENTERED") =>
            /\ nested'.result \in {"Unauthorized",
                                   "ReentrancyGuardReentrantCall"}
            /\ UNCHANGED <<ledgerVars, paidOut, inflight, snapshot>>
       ]_vars

\* a releaseStakes has paid one stake and is suspended in the transfer of
\* the next; challengeFactory calls transferStake from inside and is refused
C16_Witness ==
    /\ status = "ENTERED"
    /\ inflight.op = "releaseStakes"
    /\ inflight.events # <<>>
    /\ nested.op = "transferStake"
    /\ nested.sender = challengeFactory
    /\ nested.result = "ReentrancyGuardReentrantCall"
====
